---- MODULE Spec2Model ----
(***************************************************************************)
(* Risk scoring and statistics of the risk-assessment tool:                *)
(*   utiles/data_handler.py        RiskAssessmentDataHandler (5 tiers, DB) *)
(*   utiles/utils_data_handler.py  RiskAssessmentData (3 tiers)            *)
(*   streamlit_app.py              form handling, session state (3 tiers)  *)
(*   utiles/report_generator.py    statistics, sheets of the Excel report  *)
(*   app.py                        process editor (session state)          *)
(*                                                                         *)
(* Korean string literals of the source are written as ASCII glosses:      *)
(*   levels  매우높음 very-high, 높음 high, 보통 medium, 낮음 low,         *)
(*           매우낮음 very-low, 오류 error, 미평가 unrated                 *)
(*   actions 즉시작업중지 stop-work-immediately, 즉시개선                  *)
(*           improve-immediately, 계획적개선 planned-improvement,          *)
(*           모니터링 monitoring, 현상유지 maintain, 재계산필요 recalculate*)
(***************************************************************************)
EXTENDS Integers, Sequences, FiniteSets, TLC

VARIABLES
    risk_levels,       \* RiskAssessmentDataHandler.risk_levels (ordered dict)
    company_info,      \* table company_info: set of row ids
    work_processes,    \* table work_processes: set of rows [id, company_id]
    risk_assessments,  \* table risk_assessments: sequence of rows
    seq_assessments,   \* sqlite_sequence of risk_assessments (AUTOINCREMENT)
    input,             \* the (possibility, severity) pair given to the classifiers
    ret,               \* the last call: operation, arguments, returned value
    prev,              \* the classifier call before the last one
    assessment_data,   \* st.session_state.assessment_data
    records,           \* the collection given to _calculate_risk_statistics
    stats,             \* what _calculate_risk_statistics returned, if called
    prev_stats,        \* what the call before the last one returned
    sheet,             \* the statistics sheet of the Excel report, if written
    metrics,           \* the three risk counters the page shows, if shown
    formats,           \* the risk formats of the rows of the assessment sheet
    legal_basis,       \* table legal_basis: sequence of rows
    seq_legal_basis,   \* sqlite_sequence of legal_basis (AUTOINCREMENT)
    loaded,            \* the last load_legal_basis_from_excel: file, returned
    process_count,     \* st.session_state.process_count of app.py
    processes,         \* st.session_state.processes of app.py
    clicked            \* the widget of app.py's process editor used last

vars == <<risk_levels, company_info, work_processes, risk_assessments,
          seq_assessments, input, ret, prev, assessment_data, records, stats,
          prev_stats, sheet, metrics, formats, legal_basis,
          seq_legal_basis, loaded, process_count, processes, clicked>>

(***************************************************************************)
(* Python values.  A value is a record [t, n, s]: t the type, n the number *)
(* of an int, s the characters of a str.  "absent" is a key a dict lacks.  *)
(* Values of type bool and float are not among the inputs.                 *)
(***************************************************************************)
PyInt(n) == [t |-> "int", n |-> n, s |-> <<>>]
PyStr(s) == [t |-> "str", n |-> 0, s |-> s]
PyNone == [t |-> "none", n |-> 0, s |-> <<>>]
Absent == [t |-> "absent", n |-> 0, s |-> <<>>]

Digits == <<"0", "1", "2", "3", "4", "5", "6", "7", "8", "9">>

IsDigitChar(c) == \E i \in 1..10 : Digits[i] = c

DigitVal(c) == (CHOOSE i \in 1..10 : Digits[i] = c) - 1

\* str.isdigit(): non-empty and every character a digit
StrIsDigit(s) == Len(s) > 0 /\ \A i \in 1..Len(s) : IsDigitChar(s[i])

RECURSIVE NatToStr(_)
NatToStr(n) == IF n < 10 THEN <<Digits[n + 1]>>
               ELSE NatToStr(n \div 10) \o <<Digits[(n % 10) + 1]>>

\* str(x) of a value
PyToStr(x) == CASE x.t = "int" -> IF x.n < 0 THEN <<"-">> \o NatToStr(-x.n)
                                  ELSE NatToStr(x.n)
                [] x.t = "str" -> x.s
                [] OTHER -> <<"N", "o", "n", "e">>

RECURSIVE DigitsToNat(_)
DigitsToNat(s) == IF Len(s) = 0 THEN 0
                  ELSE 10 * DigitsToNat(SubSeq(s, 1, Len(s) - 1)) + DigitVal(s[Len(s)])

RECURSIVE StripLeft(_)
StripLeft(s) == IF Len(s) > 0 /\ s[1] = " " THEN StripLeft(Tail(s)) ELSE s

RECURSIVE StripRight(_)
StripRight(s) == IF Len(s) > 0 /\ s[Len(s)] = " "
                 THEN StripRight(SubSeq(s, 1, Len(s) - 1)) ELSE s

\* str.strip()
Strip(s) == StripRight(StripLeft(s))

\* int(x): [ok, n]; ok = FALSE is ValueError (a str that is no integer
\* literal) or TypeError (None)
ParseInt(s) ==
    LET b == Strip(s)
        signed == Len(b) > 0 /\ b[1] \in {"-", "+"}
        d == IF signed THEN Tail(b) ELSE b
    IN  IF StrIsDigit(d)
        THEN [ok |-> TRUE, n |-> IF signed /\ b[1] = "-" THEN -DigitsToNat(d)
                                 ELSE DigitsToNat(d)]
        ELSE [ok |-> FALSE, n |-> 0]

PyToInt(x) == CASE x.t = "int" -> [ok |-> TRUE, n |-> x.n]
                [] x.t = "str" -> ParseInt(x.s)
                [] OTHER -> [ok |-> FALSE, n |-> 0]

\* truth value of x in `if x`
Truthy(x) == CASE x.t = "int" -> x.n # 0
               [] x.t = "str" -> Len(x.s) > 0
               [] OTHER -> FALSE

\* dict.get(key, default) for a key that may be absent
DictGet(x, default) == IF x.t = "absent" THEN default ELSE x

(***************************************************************************)
(* Python floats (IEEE 754 binary64) that are not negative.  A float is a  *)
(* record [m, e]: m the significand, an integer of 53 bits, e the power of *)
(* two it is multiplied by; 0.0 has m = 0.  An integer that does not fit   *)
(* a machine word is the sequence of its limbs, digits of base 2^15, most  *)
(* significant first, none for 0.  A dyadic [m, e] is m * 2^e for an       *)
(* integer m of any size.                                                  *)
(***************************************************************************)
Precision == 53

LimbBits == 15

Base == 2 ^ LimbBits

\* limbs without the leading zeros
Norm(a) ==
    IF \A i \in 1..Len(a) : a[i] = 0 THEN <<>>
    ELSE SubSeq(a, CHOOSE i \in 1..Len(a) : a[i] # 0 /\ \A j \in 1..(i - 1) : a[j] = 0,
                Len(a))

RECURSIVE LimbsOf(_)
LimbsOf(n) == IF n = 0 THEN <<>> ELSE LimbsOf(n \div Base) \o <<n % Base>>

\* the number of bits of a limb x
Bits(x) == CHOOSE k \in 0..LimbBits : x < 2 ^ k /\ (k = 0 \/ x >= 2 ^ (k - 1))

BitLen(a) == IF Len(a) = 0 THEN 0 ELSE LimbBits * (Len(a) - 1) + Bits(a[1])

RECURSIVE MulCarry(_, _, _)
\* a * k + c for limbs a and ints k <= Base, c < Base
MulCarry(a, k, c) ==
    IF Len(a) = 0 THEN <<c>>
    ELSE LET p == a[Len(a)] * k + c
         IN  MulCarry(SubSeq(a, 1, Len(a) - 1), k, p \div Base) \o <<p % Base>>

MulSmall(a, k) == Norm(MulCarry(a, k, 0))

RECURSIVE AddCarry(_, _, _)
\* a + b + c for limbs a and b of one length and a carry c
AddCarry(a, b, c) ==
    IF Len(a) = 0 THEN <<c>>
    ELSE LET s == a[Len(a)] + b[Len(b)] + c
         IN  AddCarry(SubSeq(a, 1, Len(a) - 1), SubSeq(b, 1, Len(b) - 1), s \div Base)
                 \o <<s % Base>>

PadLeft(a, n) == [i \in 1..(n - Len(a)) |-> 0] \o a

Add(a, b) ==
    LET n == IF Len(a) > Len(b) THEN Len(a) ELSE Len(b)
    IN  Norm(AddCarry(PadLeft(a, n), PadLeft(b, n), 0))

RECURSIVE DivRem(_, _, _)
\* quotient and remainder of (r * Base^Len(a) + a) by k, for r < k <= Base
DivRem(a, k, r) ==
    IF Len(a) = 0 THEN [q |-> <<>>, r |-> r]
    ELSE LET x == r * Base + a[1]
             rest == DivRem(Tail(a), k, x % k)
         IN  [q |-> <<x \div k>> \o rest.q, r |-> rest.r]

\* a * 2^s
ShiftLeft(a, s) ==
    IF Len(a) = 0 THEN <<>>
    ELSE MulSmall(a, 2 ^ (s % LimbBits)) \o [i \in 1..(s \div LimbBits) |-> 0]

\* a div 2^s, and whether a bit that is 1 is lost
ShiftRight(a, s) ==
    LET whole == s \div LimbBits
        kept == SubSeq(a, 1, Len(a) - whole)
        d == DivRem(kept, 2 ^ (s % LimbBits), 0)
    IN  [q |-> Norm(d.q),
         lost |-> d.r # 0 \/ \E i \in (Len(a) - whole + 1)..Len(a) : a[i] # 0]

FloatZero == [m |-> <<>>, e |-> 0]

\* round to nearest, ties to even: the float of a * 2^e; sticky: the exact
\* value is a little more than a * 2^e
RoundTo(a, e, sticky) ==
    IF BitLen(a) <= Precision
    THEN IF Len(a) = 0 THEN FloatZero
         ELSE [m |-> ShiftLeft(a, Precision - BitLen(a)),
               e |-> e - (Precision - BitLen(a))]
    ELSE LET s == BitLen(a) - Precision
             h == ShiftRight(a, s - 1)
             q == ShiftRight(h.q, 1).q
             half == h.q[Len(h.q)] % 2 = 1
             up == half /\ (h.lost \/ sticky \/ q[Len(q)] % 2 = 1)
             inc == Add(q, <<1>>)
         IN  IF ~up THEN [m |-> q, e |-> e + s]
             ELSE IF BitLen(inc) > Precision
             THEN [m |-> ShiftRight(inc, 1).q, e |-> e + s + 1]
             ELSE [m |-> inc, e |-> e + s]

\* float(n) of an int n >= 0
FloatOfNat(n) == RoundTo(LimbsOf(n), 0, FALSE)

\* c / t of ints c >= 0 and 0 < t <= Base: true division, correctly rounded
FloatDiv(c, t) ==
    LET k == Precision + LimbBits + 1
        d == DivRem(ShiftLeft(LimbsOf(c % t), k), t, 0)
        whole == ShiftLeft(LimbsOf(c \div t), k)
    IN  RoundTo(Add(whole, Norm(d.q)), -k, d.r # 0)

\* x * k of a float x and an int 0 <= k <= Base
FloatMulNat(x, k) == RoundTo(MulSmall(x.m, k), x.e, FALSE)

(***************************************************************************)
(* RiskAssessmentDataHandler: the tier table and the classifier            *)
(***************************************************************************)
\* InitRiskLevels with the high/medium boundary one score higher
InitRiskLevels_Shifted ==
    << [name |-> "very-high", min |-> 16, max |-> 20, color |-> "#ff4444",
        action |-> "stop-work-immediately"],
       [name |-> "high", min |-> 13, max |-> 15, color |-> "#ff8888",
        action |-> "improve-immediately"],
       [name |-> "medium", min |-> 6, max |-> 12, color |-> "#ffaa44",
        action |-> "planned-improvement"],
       [name |-> "low", min |-> 3, max |-> 5, color |-> "#44ff88",
        action |-> "monitoring"],
       [name |-> "very-low", min |-> 1, max |-> 2, color |-> "#88ff88",
        action |-> "maintain"] >>

\* InitRiskLevels with the bands of medium and low exchanged
InitRiskLevels_Swapped ==
    << [name |-> "very-high", min |-> 16, max |-> 20, color |-> "#ff4444",
        action |-> "stop-work-immediately"],
       [name |-> "high", min |-> 12, max |-> 15, color |-> "#ff8888",
        action |-> "improve-immediately"],
       [name |-> "medium", min |-> 3, max |-> 5, color |-> "#ffaa44",
        action |-> "planned-improvement"],
       [name |-> "low", min |-> 6, max |-> 11, color |-> "#44ff88",
        action |-> "monitoring"],
       [name |-> "very-low", min |-> 1, max |-> 2, color |-> "#88ff88",
        action |-> "maintain"] >>

InitRiskLevels ==
    << [name |-> "very-high", min |-> 16, max |-> 20, color |-> "#ff4444",
        action |-> "stop-work-immediately"],
       [name |-> "high", min |-> 12, max |-> 15, color |-> "#ff8888",
        action |-> "improve-immediately"],
       [name |-> "medium", min |-> 6, max |-> 11, color |-> "#ffaa44",
        action |-> "planned-improvement"],
       [name |-> "low", min |-> 3, max |-> 5, color |-> "#44ff88",
        action |-> "monitoring"],
       [name |-> "very-low", min |-> 1, max |-> 2, color |-> "#88ff88",
        action |-> "maintain"] >>

NoError == [field |-> "", lo |-> 0, hi |-> 0]

\* ValueError("가능성은 1-5 사이의 값이어야 합니다."): the field and its bounds
PossibilityError == [field |-> "possibility", lo |-> 1, hi |-> 5]

\* ValueError("중대성은 1-4 사이의 값이어야 합니다.")
SeverityError == [field |-> "severity", lo |-> 1, hi |-> 4]

\* the coercion of lines 164-166: both arguments, when either is no int
CoerceArg(x) == IF StrIsDigit(PyToStr(x)) THEN PyInt(PyToInt(x).n) ELSE PyInt(1)

Coerced(possibility, severity) ==
    IF possibility.t # "int" \/ severity.t # "int"
    THEN [possibility |-> CoerceArg(possibility), severity |-> CoerceArg(severity)]
    ELSE [possibility |-> possibility, severity |-> severity]

\* MatchingTiers with the upper end of a band left out
MatchingTiers_Open(rl, score) ==
    {i \in 1..Len(rl) : rl[i].min <= score /\ score < rl[i].max}

\* the band scan of lines 177-180 over table rl: indices of matching tiers
MatchingTiers(rl, score) ==
    {i \in 1..Len(rl) : rl[i].min <= score /\ score <= rl[i].max}

\* the first matching tier in dict order, or the pre-set level "low"
ScanLevel(rl, score) ==
    IF MatchingTiers(rl, score) = {} THEN "low"
    ELSE rl[CHOOSE i \in MatchingTiers(rl, score) :
                \A j \in MatchingTiers(rl, score) : i <= j].name

\* self.risk_levels.get(level, self.risk_levels["낮음"]): [ok, info];
\* ok = FALSE is the KeyError of the default's own lookup
LevelInfo(rl, level) ==
    LET hit == {i \in 1..Len(rl) : rl[i].name = level}
        low == {i \in 1..Len(rl) : rl[i].name = "low"}
    IN  IF low = {} THEN [ok |-> FALSE, info |-> [color |-> "", action |-> ""]]
        ELSE [ok |-> TRUE,
              info |-> IF hit # {} THEN rl[CHOOSE i \in hit : TRUE]
                       ELSE rl[CHOOSE i \in low : TRUE]]

\* str(KeyError('낮음'))
KeyErrorLow == [field |-> "'low'", lo |-> 0, hi |-> 0]

Score_Sum(possibility, severity) == possibility + severity

Score(possibility, severity) == possibility * severity

\* RiskAssessmentDataHandler.calculate_risk_score on table rl.  The except
\* branch returns the dict with level "error"; nothing is raised.
calculate_risk_score(rl, possibility, severity) ==
    LET c == Coerced(possibility, severity)
        p == c.possibility
        s == c.severity
        failed == [score |-> 0, level |-> "error", color |-> "#cccccc",
                   action |-> "recalculate", possibility |-> p, severity |-> s,
                   error |-> NoError, raised |-> FALSE]
    IN  IF ~(1 <= p.n /\ p.n <= 5)
        THEN [failed EXCEPT !.error = PossibilityError]
        ELSE IF ~(1 <= s.n /\ s.n <= 4)
        THEN [failed EXCEPT !.error = SeverityError]
        ELSE LET score == Score(p.n, s.n)
                 level == ScanLevel(rl, score)
                 li == LevelInfo(rl, level)
             IN  IF ~li.ok THEN [failed EXCEPT !.error = KeyErrorLow]
                 ELSE [score |-> score, level |-> level, color |-> li.info.color,
                       action |-> li.info.action, possibility |-> p,
                       severity |-> s, error |-> NoError, raised |-> FALSE]

(***************************************************************************)
(* RiskAssessmentData.calculate_risk_score (utils_data_handler.py): three  *)
(* tiers, no validation.  possibility * severity of anything but two ints  *)
(* raises TypeError, in the product or in the comparison with 12.          *)
(***************************************************************************)
Raised(possibility, severity) ==
    [score |-> 0, level |-> "", color |-> "", action |-> "",
     possibility |-> possibility, severity |-> severity,
     error |-> NoError, raised |-> TRUE]

\* ThreeTierLevel with the high tier starting above 12
ThreeTierLevel_Above(score) == IF score > 12 THEN "high"
                               ELSE IF score >= 6 THEN "medium" ELSE "low"

ThreeTierLevel(score) == IF score >= 12 THEN "high"
                         ELSE IF score >= 6 THEN "medium" ELSE "low"

ThreeTierColor(score) == IF score >= 12 THEN "red"
                         ELSE IF score >= 6 THEN "orange" ELSE "green"

utils_calculate_risk_score(possibility, severity) ==
    IF possibility.t # "int" \/ severity.t # "int"
    THEN Raised(possibility, severity)
    ELSE LET score == Score(possibility.n, severity.n)
         IN  [score |-> score, level |-> ThreeTierLevel(score),
              color |-> ThreeTierColor(score),
              action |-> IF score >= 12 THEN "improve-immediately/stop-work"
                         ELSE IF score >= 6 THEN "improve" ELSE "monitoring",
              possibility |-> possibility, severity |-> severity,
              error |-> NoError, raised |-> FALSE]

(***************************************************************************)
(* streamlit_app.calculate_risk_score: returns (score, level, color); a    *)
(* falsy argument counts as 0, a failing int() gives (0, "unrated", gray)  *)
(***************************************************************************)
IntOrZero(x) == IF Truthy(x) THEN PyToInt(x) ELSE [ok |-> TRUE, n |-> 0]

app_calculate_risk_score(possibility, severity) ==
    LET p == IntOrZero(possibility)
        s == IntOrZero(severity)
    IN  IF ~p.ok \/ ~s.ok
        THEN [score |-> 0, level |-> "unrated", color |-> "gray"]
        ELSE [score |-> Score(p.n, s.n), level |-> ThreeTierLevel(Score(p.n, s.n)),
              color |-> ThreeTierColor(Score(p.n, s.n))]

(***************************************************************************)
(* validate_risk_data(data) (data_handler.py): the list of error messages  *)
(* of a record, a message written as [kind, field].                        *)
(***************************************************************************)
\* `not value or (isinstance(value, str) and not value.strip())`
Blank(value) == ~Truthy(value) \/ (value.t = "str" /\ Len(Strip(value.s)) = 0)

RequiredFields == <<"work_content", "hazard_factor", "possibility", "severity">>

\* the loop over required_fields; data.get(field) is None for a missing key
RequiredErrors(data) ==
    LET missing == SelectSeq(RequiredFields,
                             LAMBDA field : Blank(DictGet(data[field], PyNone)))
    IN  [i \in 1..Len(missing) |-> [kind |-> "required", field |-> missing[i]]]

\* the check of a numeric field: int(value) in lo..hi, unless value is None
NumberErrors(value, field, lo, hi) ==
    IF value = PyNone THEN <<>>
    ELSE IF ~PyToInt(value).ok THEN << [kind |-> "number", field |-> field] >>
    ELSE IF PyToInt(value).n < lo \/ PyToInt(value).n > hi
    THEN << [kind |-> "range", field |-> field] >>
    ELSE <<>>

validate_risk_data(data) ==
    RequiredErrors(data)
        \o NumberErrors(DictGet(data.possibility, PyNone), "possibility", 1, 5)
        \o NumberErrors(DictGet(data.severity, PyNone), "severity", 1, 4)

(***************************************************************************)
(* State and inputs                                                        *)
(***************************************************************************)
MaxArg == 7

\* ints below, inside and above both domains
IntInputs == {PyInt(n) : n \in -2..MaxArg}

\* "3", "0", "7", "12", "-2", "a", "" and " 2"
StrInputs == {PyStr(<<"3">>), PyStr(<<"0">>), PyStr(<<"7">>), PyStr(<<"1", "2">>),
              PyStr(<<"-", "2">>), PyStr(<<"a">>), PyStr(<<>>), PyStr(<<" ", "2">>)}

ArgInputs == IntInputs \cup StrInputs \cup {PyNone}

NoInput == [possibility |-> PyNone, severity |-> PyNone]

NoResult == [score |-> 0, level |-> "", color |-> "", action |-> "",
             possibility |-> PyNone, severity |-> PyNone,
             error |-> NoError, raised |-> FALSE]

\* no dict of get_statistics
NoStatistics == [companies |-> 0, processes |-> 0, assessments |-> 0,
                 risk_distribution |-> {}]

\* a call: op the function called, possibility and severity as passed,
\* res a classification returned, value an id or flag returned (0 is None),
\* statistics the dict get_statistics returned
NoCall == [op |-> "none", possibility |-> PyNone, severity |-> PyNone,
           res |-> NoResult, value |-> 0, statistics |-> NoStatistics]

\* the int 0 of a summary that counted nothing, as a number
Zero == FloatZero

NoStats == [called |-> FALSE, total |-> 0, high |-> 0, medium |-> 0, low |-> 0,
            high_percent |-> Zero, medium_percent |-> Zero, low_percent |-> Zero]

NoSheet == [written |-> FALSE, risk_stats |-> NoStats, analysed |-> FALSE,
            hazard_stats |-> {}]

NoMetrics == [shown |-> FALSE, raised |-> FALSE, high_count |-> 0,
              medium_count |-> 0, low_count |-> 0]

\* no assessment sheet written
NoFormats == [written |-> FALSE, rows |-> <<>>]

\* load_legal_basis_from_excel not called
NoLoad == [called |-> FALSE, file |-> [readable |-> FALSE, rows |-> <<>>],
           returned |-> FALSE]

\* app.py, lines 335-342: a process of the editor with nothing filled in
BlankProcess == [name |-> ""]

\* the handler constructed on an empty database, an empty session
Init ==
    /\ risk_levels = InitRiskLevels
    /\ company_info = {}
    /\ work_processes = {}
    /\ risk_assessments = <<>>
    /\ seq_assessments = 0
    /\ input = NoInput
    /\ ret = NoCall
    /\ prev = NoCall
    /\ assessment_data = <<>>
    /\ records = <<>>
    /\ stats = NoStats
    /\ prev_stats = NoStats
    /\ sheet = NoSheet
    /\ metrics = NoMetrics
    /\ formats = NoFormats
    /\ legal_basis = <<>>
    /\ seq_legal_basis = 0
    /\ loaded = NoLoad
    /\ process_count = 5
    /\ processes = [i \in 1..5 |-> BlankProcess]
    /\ clicked = "none"

\* the (score, level, color) tuple of streamlit_app.calculate_risk_score as a
\* result record
AppResult(possibility, severity) ==
    LET r == app_calculate_risk_score(possibility, severity)
    IN  [NoResult EXCEPT !.score = r.score, !.level = r.level, !.color = r.color,
                         !.possibility = possibility, !.severity = severity]

\* CalculateRiskScore taking the tier's entry out of the table
\* (risk_levels.pop(level, ...) for risk_levels.get(level, ...))
CalculateRiskScore_Pop ==
    LET res == calculate_risk_score(risk_levels, input.possibility, input.severity)
    IN  /\ ret' = [op |-> "handler", possibility |-> input.possibility,
                   severity |-> input.severity, res |-> res, value |-> 0,
               statistics |-> NoStatistics]
        /\ prev' = ret
        /\ risk_levels' = SelectSeq(risk_levels, LAMBDA e : e.name # res.level)
        /\ UNCHANGED <<company_info, work_processes, risk_assessments,
                       seq_assessments, input, assessment_data, records, stats,
                       prev_stats, sheet, metrics,
                       formats, legal_basis, seq_legal_basis, loaded,
                       process_count, processes, clicked>>

\* handler.calculate_risk_score(possibility, severity): the call returns and
\* assigns nothing of the handler
CalculateRiskScore ==
    /\ ret' = [op |-> "handler", possibility |-> input.possibility,
               severity |-> input.severity,
               res |-> calculate_risk_score(risk_levels, input.possibility,
                                            input.severity),
               value |-> 0,
               statistics |-> NoStatistics]
    /\ prev' = ret
    /\ UNCHANGED <<risk_levels, company_info, work_processes, risk_assessments,
                   seq_assessments, input, assessment_data, records, stats,
                   prev_stats, sheet, metrics,
                   formats, legal_basis, seq_legal_basis, loaded,
                   process_count, processes, clicked>>

UtilsCalculateRiskScore ==
    /\ ret' = [op |-> "utils", possibility |-> input.possibility,
               severity |-> input.severity,
               res |-> utils_calculate_risk_score(input.possibility, input.severity),
               value |-> 0,
               statistics |-> NoStatistics]
    /\ prev' = ret
    /\ UNCHANGED <<risk_levels, company_info, work_processes, risk_assessments,
                   seq_assessments, input, assessment_data, records, stats,
                   prev_stats, sheet, metrics,
                   formats, legal_basis, seq_legal_basis, loaded,
                   process_count, processes, clicked>>

AppCalculateRiskScore ==
    /\ ret' = [op |-> "app", possibility |-> input.possibility,
               severity |-> input.severity,
               res |-> AppResult(input.possibility, input.severity), value |-> 0,
               statistics |-> NoStatistics]
    /\ prev' = ret
    /\ UNCHANGED <<risk_levels, company_info, work_processes, risk_assessments,
                   seq_assessments, input, assessment_data, records, stats,
                   prev_stats, sheet, metrics,
                   formats, legal_basis, seq_legal_basis, loaded,
                   process_count, processes, clicked>>

\* the texts of a record: a text, blanks, or no key
RecordTexts == {PyStr(<<"w">>), PyStr(<<" ">>), Absent}

\* validate_risk_data on a record with the pair of arguments as possibility
\* and severity; value is the number of messages returned
ValidateRiskData ==
    \E work_content \in RecordTexts, hazard_factor \in RecordTexts :
        /\ ret' = [op |-> "validate", possibility |-> input.possibility,
                   severity |-> input.severity, res |-> NoResult,
                   value |-> Len(validate_risk_data(
                                [work_content |-> work_content,
                                 hazard_factor |-> hazard_factor,
                                 possibility |-> input.possibility,
                                 severity |-> input.severity])),
                   statistics |-> NoStatistics]
        /\ prev' = ret
        /\ UNCHANGED <<risk_levels, company_info, work_processes, risk_assessments,
                       seq_assessments, input, assessment_data, records, stats,
                       prev_stats, sheet, metrics,
                       formats, legal_basis, seq_legal_basis, loaded,
                       process_count, processes, clicked>>

\* a caller's pair of arguments: any two of the input values
InitClassify ==
    /\ risk_levels = InitRiskLevels
    /\ company_info = {}
    /\ work_processes = {}
    /\ risk_assessments = <<>>
    /\ seq_assessments = 0
    /\ input \in [possibility : ArgInputs, severity : ArgInputs]
    /\ ret = NoCall
    /\ prev = NoCall
    /\ assessment_data = <<>>
    /\ records = <<>>
    /\ stats = NoStats
    /\ prev_stats = NoStats
    /\ sheet = NoSheet
    /\ metrics = NoMetrics
    /\ formats = NoFormats
    /\ legal_basis = <<>>
    /\ seq_legal_basis = 0
    /\ loaded = NoLoad
    /\ process_count = 5
    /\ processes = [i \in 1..5 |-> BlankProcess]
    /\ clicked = "none"

NextClassify ==
    \/ CalculateRiskScore
    \/ UtilsCalculateRiskScore
    \/ AppCalculateRiskScore
    \/ ValidateRiskData

\* the three classifiers and the validation called on a pair of arguments,
\* in any order and any number of times
SpecClassify == InitClassify /\ [][NextClassify]_vars

(***************************************************************************)
(* The database of RiskAssessmentDataHandler.  Every method opens its own  *)
(* connection with foreign keys on, commits at its end, and on an          *)
(* exception rolls back and returns None or False.                         *)
(***************************************************************************)
MaxParents == 1
MaxInserts == 2

\* a value stored in a column of INTEGER affinity: text that is an integer
\* literal becomes the integer, other text stays text, None is NULL
SqlInteger(x) ==
    CASE x.t = "str" -> IF ParseInt(x.s).ok THEN PyInt(ParseInt(x.s).n) ELSE x
      [] OTHER -> x

\* company_data['company_name']: a name, None
CompanyNames == {PyStr(<<"a">>), PyNone}

\* a foreign key argument: None, the first id
KeyArgs == {PyNone, PyInt(1)}

\* assessment_data's possibility and severity: (3, 2), (7, 2), (absent, 2),
\* ("2", 2) and ("a", None)
DbInputs == {[possibility |-> PyInt(3), severity |-> PyInt(2)],
             [possibility |-> PyInt(7), severity |-> PyInt(2)],
             [possibility |-> Absent, severity |-> PyInt(2)],
             [possibility |-> PyStr(<<"2">>), severity |-> PyInt(2)],
             [possibility |-> PyStr(<<"a">>), severity |-> PyNone]}

\* a call that returned value and no classification
Returned(op, possibility, severity, value) ==
    [op |-> op, possibility |-> possibility, severity |-> severity,
     res |-> NoResult, value |-> value, statistics |-> NoStatistics]

\* save_company_info: company_name is NOT NULL; returns the new id or None
SaveCompanyInfo ==
    \E company_name \in CompanyNames :
        /\ Cardinality(company_info) < MaxParents
        /\ IF DictGet(company_name, PyStr(<<>>)) = PyNone
           THEN /\ ret' = Returned("save_company_info", PyNone, PyNone, 0)
                /\ UNCHANGED company_info
           ELSE /\ company_info' = company_info \cup {Cardinality(company_info) + 1}
                /\ ret' = Returned("save_company_info", PyNone, PyNone,
                                   Cardinality(company_info) + 1)
        /\ UNCHANGED <<risk_levels, work_processes, risk_assessments,
                       seq_assessments, input, prev, assessment_data, records, stats,
                       prev_stats, sheet, metrics,
                       formats, legal_basis, seq_legal_basis, loaded,
                       process_count, processes, clicked>>

\* save_work_process: company_id references company_info (NULL passes)
SaveWorkProcess ==
    \E company_id \in KeyArgs :
        /\ Cardinality(work_processes) < MaxParents
        /\ IF company_id = PyNone \/ company_id.n \in company_info
           THEN /\ work_processes' = work_processes \cup
                      {[id |-> Cardinality(work_processes) + 1,
                        company_id |-> company_id]}
                /\ ret' = Returned("save_work_process", PyNone, PyNone,
                                   Cardinality(work_processes) + 1)
           ELSE /\ ret' = Returned("save_work_process", PyNone, PyNone, 0)
                /\ UNCHANGED work_processes
        /\ UNCHANGED <<risk_levels, company_info, risk_assessments,
                       seq_assessments, input, prev, assessment_data, records, stats,
                       prev_stats, sheet, metrics,
                       formats, legal_basis, seq_legal_basis, loaded,
                       process_count, processes, clicked>>

\* the row save_risk_assessment inserts
AssessmentRow(id, process_id, possibility, severity, risk_info) ==
    [id |-> id, process_id |-> process_id,
     possibility |-> SqlInteger(DictGet(possibility, PyInt(1))),
     severity |-> SqlInteger(DictGet(severity, PyInt(1))),
     risk_score |-> risk_info.score, risk_level |-> risk_info.level,
     risk_color |-> risk_info.color, action_required |-> risk_info.action]

\* save_risk_assessment(process_id, assessment_data): classify, insert,
\* commit, return the new id; a foreign key failure returns None
SaveRiskAssessment ==
    \E process_id \in KeyArgs, data \in DbInputs :
        LET possibility == data.possibility
            severity == data.severity
            risk_info == calculate_risk_score(risk_levels,
                             DictGet(possibility, PyInt(1)),
                             DictGet(severity, PyInt(1)))
            id == seq_assessments + 1
        IN  /\ seq_assessments < MaxInserts
            /\ IF process_id = PyNone
                  \/ \E w \in work_processes : w.id = process_id.n
               THEN /\ risk_assessments' = Append(risk_assessments,
                          AssessmentRow(id, process_id, possibility, severity,
                                        risk_info))
                    /\ seq_assessments' = id
                    /\ ret' = Returned("save_risk_assessment", possibility,
                                       severity, id)
               ELSE /\ ret' = Returned("save_risk_assessment", possibility,
                                       severity, 0)
                    /\ UNCHANGED <<risk_assessments, seq_assessments>>
            /\ UNCHANGED <<risk_levels, company_info, work_processes, input,
                           prev, assessment_data, records, stats,
                           prev_stats, sheet, metrics,
                           formats, legal_basis, seq_legal_basis, loaded,
                           process_count, processes, clicked>>

\* DeleteAssessment with WHERE id <= ? for WHERE id = ?
DeleteAssessment_UpTo ==
    \E assessment_id \in 1..(seq_assessments + 1) :
        /\ risk_assessments' = SelectSeq(risk_assessments,
                                         LAMBDA r : ~(r.id <= assessment_id))
        /\ ret' = Returned("delete_assessment", PyInt(assessment_id), PyNone, 1)
        /\ UNCHANGED <<risk_levels, company_info, work_processes,
                       seq_assessments, input, prev, assessment_data, records, stats,
                       prev_stats, sheet, metrics, formats, legal_basis,
                       seq_legal_basis, loaded, process_count, processes, clicked>>

\* delete_assessment(assessment_id): returns True (1), row or no row
DeleteAssessment ==
    \E assessment_id \in 1..(seq_assessments + 1) :
        /\ risk_assessments' = SelectSeq(risk_assessments,
                                         LAMBDA r : r.id # assessment_id)
        /\ ret' = Returned("delete_assessment", PyInt(assessment_id), PyNone, 1)
        /\ UNCHANGED <<risk_levels, company_info, work_processes,
                       seq_assessments, input, prev, assessment_data, records, stats,
                       prev_stats, sheet, metrics,
                       formats, legal_basis, seq_legal_basis, loaded,
                       process_count, processes, clicked>>

\* RiskDistribution with the rows of the five tiers only
RiskDistribution_Tiers(rows) ==
    {[risk_level |-> level,
      count |-> Cardinality({i \in 1..Len(rows) : rows[i].risk_level = level})] :
        level \in {rows[i].risk_level : i \in 1..Len(rows)}
                      \cap {InitRiskLevels[i].name : i \in 1..Len(InitRiskLevels)}}

\* dict(cursor.fetchall()) of SELECT risk_level, COUNT(*) ... GROUP BY
\* risk_level: the pairs of a level some row has and the number of its rows
RiskDistribution(rows) ==
    {[risk_level |-> level,
      count |-> Cardinality({i \in 1..Len(rows) : rows[i].risk_level = level})] :
        level \in {rows[i].risk_level : i \in 1..Len(rows)}}

\* get_statistics(): the counts of the three tables and the distribution of
\* the levels; it writes nothing
GetStatistics ==
    /\ ret' = [Returned("get_statistics", PyNone, PyNone, 0) EXCEPT
                  !.statistics = [companies |-> Cardinality(company_info),
                                  processes |-> Cardinality(work_processes),
                                  assessments |-> Len(risk_assessments),
                                  risk_distribution |->
                                      RiskDistribution(risk_assessments)]]
    /\ UNCHANGED <<risk_levels, company_info, work_processes, risk_assessments,
                   seq_assessments, input, prev, assessment_data, records, stats,
                   prev_stats, sheet, metrics, formats, legal_basis,
                   seq_legal_basis, loaded, process_count, processes, clicked>>

Next ==
    \/ SaveCompanyInfo
    \/ SaveWorkProcess
    \/ SaveRiskAssessment
    \/ DeleteAssessment
    \/ GetStatistics

\* the handler's database methods called in any order
Spec == Init /\ [][Next]_vars

(***************************************************************************)
(* load_legal_basis_from_excel(file_path).  A file is [readable, rows]; a  *)
(* row of the sheet gives a cell for each of the four columns: a text, no  *)
(* cell when the sheet lacks the column, or a value sqlite3 cannot bind.   *)
(***************************************************************************)
MaxLegalId == 6

\* a cell value that is no type sqlite3 binds (a Timestamp)
PyObject == [t |-> "object", n |-> 0, s |-> <<>>]

SheetRow(category, subcategory, legal_text, regulation_number) ==
    [category |-> category, subcategory |-> subcategory,
     legal_text |-> legal_text, regulation_number |-> regulation_number]

\* a file that cannot be read, an empty sheet, sheets of one and two rows,
\* and sheets with a cell that cannot be bound, in the first row or the second
LegalFiles ==
    LET a == SheetRow(PyStr(<<"A">>), PyStr(<<"a">>), PyStr(<<"L">>), PyStr(<<"1">>))
        b == SheetRow(PyStr(<<"B">>), Absent, PyStr(<<"M">>), Absent)
        bad == SheetRow(PyStr(<<"C">>), PyStr(<<"c">>), PyStr(<<"N">>), PyObject)
    IN  {[readable |-> FALSE, rows |-> <<>>]}
           \cup {[readable |-> TRUE, rows |-> rows] :
                    rows \in {<<>>, <<a>>, <<b>>, <<a, b>>, <<b, a>>,
                              <<a, bad>>, <<b, bad>>, <<bad>>}}

\* cursor.execute of the INSERT raises for a parameter that cannot be bound
Binds(row) ==
    /\ row.category # PyObject /\ row.subcategory # PyObject
    /\ row.legal_text # PyObject /\ row.regulation_number # PyObject

\* the row the INSERT stores: row.get(column, '') of the four columns
LegalRow(id, row) ==
    [id |-> id,
     category |-> DictGet(row.category, PyStr(<<>>)),
     subcategory |-> DictGet(row.subcategory, PyStr(<<>>)),
     legal_text |-> DictGet(row.legal_text, PyStr(<<>>)),
     regulation_number |-> DictGet(row.regulation_number, PyStr(<<>>))]

\* the table and its counter inside the transaction, after the DELETE and
\* the INSERTs of the first n rows
Inserted(seq, rows, n) ==
    [legal_basis |-> [i \in 1..n |-> LegalRow(seq + i, rows[i])],
     seq_legal_basis |-> seq + n]

\* Rollback with the work of the transaction kept (every statement committed
\* as it is executed)
Rollback_Kept(before, work) == work

\* get_connection, lines 55-58: conn.rollback() in the except branch
Rollback(before, work) == before

\* load_legal_basis_from_excel(file_path): read the sheet, DELETE, INSERT
\* row by row, commit and return True; an unreadable file returns False
\* before the connection is opened; an INSERT that raises leaves through
\* get_connection, which rolls back, and the call returns False
LoadLegalBasisFromExcel ==
    \E file \in LegalFiles :
        LET before == [legal_basis |-> legal_basis,
                       seq_legal_basis |-> seq_legal_basis]
            failing == {i \in 1..Len(file.rows) : ~Binds(file.rows[i])}
            done == IF failing = {} THEN Len(file.rows)
                    ELSE (CHOOSE i \in failing : \A j \in failing : i <= j) - 1
            work == Inserted(seq_legal_basis, file.rows, done)
            after == IF ~file.readable THEN before
                     ELSE IF failing # {} THEN Rollback(before, work)
                     ELSE work
        IN  /\ seq_legal_basis + Len(file.rows) <= MaxLegalId
            /\ legal_basis' = after.legal_basis
            /\ seq_legal_basis' = after.seq_legal_basis
            /\ loaded' = [called |-> TRUE, file |-> file,
                          returned |-> file.readable /\ failing = {}]
            /\ UNCHANGED <<risk_levels, company_info, work_processes,
                           risk_assessments, seq_assessments, input, ret, prev,
                           assessment_data, records, stats, prev_stats, sheet,
                           metrics, formats, process_count, processes, clicked>>

NextLegal == LoadLegalBasisFromExcel

\* the legal basis loaded from one file after another
SpecLegal == Init /\ [][NextLegal]_vars

(***************************************************************************)
(* streamlit_app.py: the session's assessment_data.  An item is a dict;    *)
(* a key the dict lacks is Absent (NoKey for risk_level and risk_color).   *)
(* form_data, which no statement here reads, is left out.                  *)
(***************************************************************************)
MaxItems == 2

NoKey == "(absent)"

\* str.strip() of a value that is a str
StripValue(x) == IF x.t = "str" THEN PyStr(Strip(x.s)) ELSE x

\* show_native_form, lines 321-357: the item of a submitted form
NativeItem(work_content, hazard_factor, possibility, severity) ==
    [work_content |-> work_content, hazard_factor |-> hazard_factor,
     possibility |-> PyInt(possibility), severity |-> PyInt(severity),
     risk_score |-> PyInt(Score(possibility, severity)),
     risk_level |-> ThreeTierLevel(Score(possibility, severity)),
     risk_color |-> ThreeTierColor(Score(possibility, severity))]

\* process_form_data(raw_data): score, level and color when both keys are
\* there, then every str value stripped
process_form_data(raw_data) ==
    LET scored == raw_data.possibility.t # "absent" /\ raw_data.severity.t # "absent"
        r == app_calculate_risk_score(raw_data.possibility, raw_data.severity)
    IN  [work_content |-> StripValue(raw_data.work_content),
         hazard_factor |-> StripValue(raw_data.hazard_factor),
         possibility |-> StripValue(raw_data.possibility),
         severity |-> StripValue(raw_data.severity),
         risk_score |-> IF scored THEN PyInt(r.score) ELSE Absent,
         risk_level |-> IF scored THEN r.level ELSE NoKey,
         risk_color |-> IF scored THEN r.color ELSE NoKey]

\* the text fields the forms give: a text or nothing
TextInputs == {PyStr(<<"w">>), Absent}

\* what collectFormData sends for the two selects of the sample form: the
\* option's value as a string, or no key when nothing is selected
PossibilityMessages == {Absent, PyStr(<<"3">>), PyStr(<<"5">>)}

SeverityMessages == {Absent, PyStr(<<"4">>)}

\* the native form submitted with both texts filled in
NativeFormSubmit ==
    \E possibility \in 1..5, severity \in 1..4 :
        /\ Len(assessment_data) < MaxItems
        /\ assessment_data' = Append(assessment_data,
               NativeItem(PyStr(<<"w">>), PyStr(<<"w">>), possibility, severity))
        /\ metrics' = NoMetrics
        /\ UNCHANGED <<risk_levels, company_info, work_processes, risk_assessments,
                       seq_assessments, input, ret, prev, records, stats,
                       prev_stats, sheet,
                       formats, legal_basis, seq_legal_basis, loaded,
                       process_count, processes, clicked>>

\* main, lines 579-600: a message of the HTML component that is form data;
\* it is stored as an assessment when it has both text keys
ComponentMessage ==
    \E work_content \in TextInputs, hazard_factor \in TextInputs,
       possibility \in PossibilityMessages, severity \in SeverityMessages :
        LET processed_data == process_form_data(
                [work_content |-> work_content, hazard_factor |-> hazard_factor,
                 possibility |-> possibility, severity |-> severity])
        IN  /\ Len(assessment_data) < MaxItems
            /\ assessment_data' =
                  IF processed_data.work_content.t # "absent"
                     /\ processed_data.hazard_factor.t # "absent"
                  THEN Append(assessment_data, processed_data)
                  ELSE assessment_data
            /\ metrics' = NoMetrics
            /\ UNCHANGED <<risk_levels, company_info, work_processes,
                           risk_assessments, seq_assessments, input, ret, prev,
                           records, stats, prev_stats, sheet,
                           formats, legal_basis, seq_legal_basis, loaded,
                           process_count, processes, clicked>>

\* main, lines 630-662: the button that shows the stored assessments and the
\* three counters; item['risk_level'] of an item without that key raises
\* KeyError, which nothing catches, and the counters are not shown
ViewAssessmentData ==
    LET keyed == \A i \in 1..Len(assessment_data) :
                     assessment_data[i].risk_level # NoKey
        count(level) == Cardinality({i \in 1..Len(assessment_data) :
                                        assessment_data[i].risk_level = level})
    IN  /\ Len(assessment_data) > 0
        /\ metrics' = IF keyed
                      THEN [shown |-> TRUE, raised |-> FALSE,
                            high_count |-> count("high"),
                            medium_count |-> count("medium"),
                            low_count |-> count("low")]
                      ELSE [NoMetrics EXCEPT !.raised = TRUE]
        /\ UNCHANGED <<risk_levels, company_info, work_processes, risk_assessments,
                       seq_assessments, input, ret, prev, assessment_data, records,
                       stats, prev_stats, sheet,
                       formats, legal_basis, seq_legal_basis, loaded,
                       process_count, processes, clicked>>

NextUI == NativeFormSubmit \/ ComponentMessage \/ ViewAssessmentData

\* one session: forms submitted, component messages received and the stored
\* assessments viewed, in any order
SpecUI == Init /\ [][NextUI]_vars

(***************************************************************************)
(* report_generator.py: _calculate_risk_statistics.  A record is an item   *)
(* of the list: a dict with its risk_score and risk_level (Absent, NoKey:  *)
(* no such key), or something that is no dict.                             *)
(***************************************************************************)
MaxRecords == 3

StatRecord(hazard_factor, possibility, severity, risk_score, risk_level) ==
    [dict |-> TRUE, hazard_factor |-> hazard_factor, possibility |-> possibility,
     severity |-> severity, risk_score |-> risk_score, risk_level |-> risk_level]

NotADict == [dict |-> FALSE, hazard_factor |-> Absent, possibility |-> Absent,
             severity |-> Absent, risk_score |-> Absent, risk_level |-> NoKey]

\* a record that carries what the handler's classifier returns for its
\* possibility and severity
Classified(hazard_factor, possibility, severity) ==
    LET risk_info == calculate_risk_score(InitRiskLevels, possibility, severity)
    IN  StatRecord(hazard_factor, possibility, severity,
                   PyInt(risk_info.score), risk_info.level)

\* a record with possibility and severity and neither score nor level
Unscored(hazard_factor, possibility, severity) ==
    StatRecord(hazard_factor, possibility, severity, Absent, NoKey)

\* classified records of every tier, a failed classification, an unscored
\* record with no hazard_factor, a classified one with an empty
\* hazard_factor, a record with a level only, one whose score is a str,
\* one that streamlit_app could not rate, and an item that is no dict
StatRecords ==
    {Classified(PyStr(<<"w">>), PyInt(5), PyInt(4)),
     Classified(PyStr(<<"w">>), PyInt(2), PyInt(3)),
     Classified(PyStr(<<"w">>), PyInt(1), PyInt(3)),
     Classified(PyStr(<<"w">>), PyInt(7), PyInt(2)),
     Unscored(Absent, PyInt(3), PyInt(3)),
     Classified(PyStr(<<>>), PyInt(3), PyInt(3)),
     StatRecord(PyStr(<<"w">>), Absent, Absent, Absent, "high"),
     StatRecord(PyStr(<<"w">>), PyStr(<<"3">>), PyStr(<<"4">>),
                PyStr(<<"1", "2">>), "medium"),
     StatRecord(PyStr(<<"w">>), PyStr(<<"a">>), PyStr(<<"4">>), PyInt(0), "unrated"),
     NotADict}

\* the five records of classify(5, 4), (3, 4), (2, 3), (1, 3) and (1, 1),
\* with the scores 20, 12, 6, 3 and 1
FiveScores ==
    << Classified(PyStr(<<"w">>), PyInt(5), PyInt(4)),
       Classified(PyStr(<<"w">>), PyInt(3), PyInt(4)),
       Classified(PyStr(<<"w">>), PyInt(2), PyInt(3)),
       Classified(PyStr(<<"w">>), PyInt(1), PyInt(3)),
       Classified(PyStr(<<"w">>), PyInt(1), PyInt(1)) >>

\* Bucket with no default at the end of the chain (no final else)
Bucket_NoDefault(item) ==
    LET risk_score == DictGet(item.risk_score, PyInt(0))
        risk_level == IF item.risk_level = NoKey THEN "" ELSE item.risk_level
        number == risk_score.t = "int"
    IN  CASE number /\ risk_score.n >= 12 -> "high"
          [] number /\ ~(risk_score.n >= 12) /\ risk_score.n >= 6 -> "medium"
          [] number /\ ~(risk_score.n >= 6) /\ risk_score.n > 0 -> "low"
          [] OTHER -> CASE risk_level = "high" -> "high"
                        [] risk_level = "medium" -> "medium"
                        [] risk_level = "low" -> "low"
                        [] OTHER -> "none"

\* lines 397-414: the counter a record adds to
Bucket(item) ==
    LET risk_score == DictGet(item.risk_score, PyInt(0))
        risk_level == IF item.risk_level = NoKey THEN "" ELSE item.risk_level
        number == risk_score.t = "int"
    IN  CASE number /\ risk_score.n >= 12 -> "high"
          [] number /\ ~(risk_score.n >= 12) /\ risk_score.n >= 6 -> "medium"
          [] number /\ ~(risk_score.n >= 6) /\ risk_score.n > 0 -> "low"
          [] OTHER -> CASE risk_level = "high" -> "high"
                        [] risk_level = "medium" -> "medium"
                        [] risk_level = "low" -> "low"
                        [] OTHER -> "low"

CountOf(data, bucket) ==
    Cardinality({i \in 1..Len(data) : Bucket(data[i]) = bucket})

ZeroStatistics ==
    [total |-> 0, high |-> 0, medium |-> 0, low |-> 0,
     high_percent |-> Zero, medium_percent |-> Zero, low_percent |-> Zero]

\* Percent with integer arithmetic: count * 100 // total
Percent_Floor(count, total) ==
    IF total > 0 THEN FloatOfNat((count * 100) \div total) ELSE Zero

\* (count / total * 100) if total > 0 else 0
Percent(count, total) ==
    IF total > 0 THEN FloatMulNat(FloatDiv(count, total), 100) ELSE Zero

\* _calculate_risk_statistics with no early return for an empty list and the
\* low percentage taken as the rest of 100
calculate_risk_statistics_Rest(data) ==
    LET total == Len(data)
        high == CountOf(data, "high")
        medium == CountOf(data, "medium")
    IN  IF \E i \in 1..total : ~data[i].dict
        THEN ZeroStatistics
        ELSE [total |-> total, high |-> high, medium |-> medium,
              low |-> CountOf(data, "low"),
              high_percent |-> Percent(high, total),
              medium_percent |-> Percent(medium, total),
              low_percent |-> IF total > 0
                              THEN Percent(total - high - medium, total)
                              ELSE FloatOfNat(100)]

\* _calculate_risk_statistics(assessment_data), its argument data; item.get of an item that is
\* no dict raises, and the except branch returns the zero statistics
calculate_risk_statistics(data) ==
    LET total == Len(data)
        high == CountOf(data, "high")
        medium == CountOf(data, "medium")
        low == CountOf(data, "low")
    IN  IF total = 0 THEN ZeroStatistics
        ELSE IF \E i \in 1..total : ~data[i].dict
        THEN ZeroStatistics
        ELSE [total |-> total, high |-> high, medium |-> medium, low |-> low,
              high_percent |-> Percent(high, total),
              medium_percent |-> Percent(medium, total),
              low_percent |-> Percent(low, total)]

\* the summary s as what a call returned
Called(s) ==
    [called |-> TRUE, total |-> s.total, high |-> s.high, medium |-> s.medium,
     low |-> s.low, high_percent |-> s.high_percent,
     medium_percent |-> s.medium_percent, low_percent |-> s.low_percent]

\* CalculateRiskStatistics taking the items off the list as it counts them
\* (assessment_data.pop() for the loop over assessment_data)
CalculateRiskStatistics_Pop ==
    /\ stats' = Called(calculate_risk_statistics(records))
    /\ prev_stats' = stats
    /\ records' = <<>>
    /\ UNCHANGED <<risk_levels, company_info, work_processes, risk_assessments,
                   seq_assessments, input, ret, prev, assessment_data,
                   sheet, metrics,
                   formats, legal_basis, seq_legal_basis, loaded,
                   process_count, processes, clicked>>

\* the statistics of the collection at hand
CalculateRiskStatistics ==
    /\ stats' = Called(calculate_risk_statistics(records))
    /\ prev_stats' = stats
    /\ UNCHANGED <<risk_levels, company_info, work_processes, risk_assessments,
                   seq_assessments, input, ret, prev, assessment_data, records,
                   sheet, metrics,
                   formats, legal_basis, seq_legal_basis, loaded,
                   process_count, processes, clicked>>

\* '기타' (other)
Other == PyStr(<<"o", "t", "h", "e", "r">>)

\* item.get('hazard_factor', '기타'): the key of the item's row
HazardKey(item) == DictGet(item.hazard_factor, Other)

\* item.get('risk_level', '미정')
HazardLevel(item) == IF item.risk_level = NoKey THEN "undetermined" ELSE item.risk_level

\* lines 353-363: hazard_stats as the rows written, one per key, with the
\* counts of the three columns and the total
hazard_statistics(data) ==
    LET of(hazard) == {i \in 1..Len(data) : HazardKey(data[i]) = hazard}
        at(hazard, level) ==
            Cardinality({i \in of(hazard) : HazardLevel(data[i]) = level})
    IN  {[hazard |-> hazard, high |-> at(hazard, "high"),
          medium |-> at(hazard, "medium"), low |-> at(hazard, "low"),
          total |-> Cardinality(of(hazard))] :
            hazard \in {HazardKey(data[i]) : i \in 1..Len(data)}}

\* _create_statistics_sheet for the collection at hand: nothing for an
\* empty one; the statistics table, then the rows per hazard, which an item
\* that is no dict keeps from being written (the exception is logged)
CreateStatisticsSheet ==
    /\ sheet' =
          IF Len(records) = 0 THEN NoSheet
          ELSE [written |-> TRUE,
                risk_stats |-> Called(calculate_risk_statistics(records)),
                analysed |-> \A i \in 1..Len(records) : records[i].dict,
                hazard_stats |-> IF \A i \in 1..Len(records) : records[i].dict
                                THEN hazard_statistics(records) ELSE {}]
    /\ UNCHANGED <<risk_levels, company_info, work_processes, risk_assessments,
                   seq_assessments, input, ret, prev, assessment_data, records,
                   stats, prev_stats, metrics,
                   formats, legal_basis, seq_legal_basis, loaded,
                   process_count, processes, clicked>>

\* _create_assessment_sheet, lines 278-290: the format chosen for a row, or
\* "none" for a row whose score is neither a number nor a str of digits
RowFormat(row_data) ==
    LET risk_score == DictGet(row_data.risk_score, PyInt(0))
        risk_level == IF row_data.risk_level = NoKey THEN "" ELSE row_data.risk_level
        score_val == IF Truthy(risk_score) THEN PyToInt(risk_score).n ELSE 0
    IN  IF risk_score.t = "int" \/ StrIsDigit(PyToStr(risk_score))
        THEN IF score_val >= 12 \/ risk_level = "high" THEN "high"
             ELSE IF score_val >= 6 \/ risk_level = "medium" THEN "medium"
             ELSE "low"
        ELSE "none"

\* lines 293-299: the sheet has a score or a level column to write a format
\* to when some record has the key (the columns of the DataFrame are the
\* keys of the records)
HasRiskColumn(data) ==
    \E i \in 1..Len(data) :
        data[i].dict /\ (data[i].risk_score.t # "absent" \/ data[i].risk_level # NoKey)

\* the formats written for the rows of data: row_data.get of an item that is
\* no dict raises, which ends the loop (the except branch logs); the rows
\* before it keep their formats
RowFormats(data) ==
    [i \in 1..Len(data) |->
        IF (\A j \in 1..i : data[j].dict) /\ HasRiskColumn(data)
        THEN RowFormat(data[i]) ELSE "none"]

\* _create_assessment_sheet(writer, data, ...): nothing for an empty
\* collection; pd.DataFrame of a list with an item that is no dict either
\* raises before any row is written or builds the table
CreateAssessmentSheet ==
    /\ \E built \in BOOLEAN :
          formats' =
             IF Len(records) = 0 THEN NoFormats
             ELSE IF (\A i \in 1..Len(records) : records[i].dict) \/ built
             THEN [written |-> TRUE, rows |-> RowFormats(records)]
             ELSE NoFormats
    /\ UNCHANGED <<risk_levels, company_info, work_processes, risk_assessments,
                   seq_assessments, input, ret, prev, assessment_data, records,
                   stats, prev_stats, sheet, metrics, legal_basis,
                   seq_legal_basis, loaded, process_count, processes, clicked>>

\* a caller's collection: any list of at most MaxRecords records, or the
\* list of five
InitStats ==
    /\ risk_levels = InitRiskLevels
    /\ company_info = {}
    /\ work_processes = {}
    /\ risk_assessments = <<>>
    /\ seq_assessments = 0
    /\ input = NoInput
    /\ ret = NoCall
    /\ prev = NoCall
    /\ assessment_data = <<>>
    /\ records \in UNION {[1..n -> StatRecords] : n \in 0..MaxRecords}
                   \cup {FiveScores}
    /\ stats = NoStats
    /\ prev_stats = NoStats
    /\ sheet = NoSheet
    /\ metrics = NoMetrics
    /\ formats = NoFormats
    /\ legal_basis = <<>>
    /\ seq_legal_basis = 0
    /\ loaded = NoLoad
    /\ process_count = 5
    /\ processes = [i \in 1..5 |-> BlankProcess]
    /\ clicked = "none"

NextStats == CalculateRiskStatistics \/ CreateStatisticsSheet

\* the statistics computed, and the statistics sheet written, for a
\* collection
SpecStats == InitStats /\ [][NextStats]_vars

NextReport == CreateAssessmentSheet \/ CreateStatisticsSheet

\* generate_excel_report, lines 108-111: the assessment sheet and the
\* statistics sheet written for a collection
SpecReport == InitStats /\ [][NextReport]_vars

(***************************************************************************)
(* app.py, the process editor of the second tab: process_count and         *)
(* processes of the session state, the two buttons and the text inputs.    *)
(* Of the fields of a process the name is kept; the other text fields are  *)
(* written by their widgets the same way.                                  *)
(***************************************************************************)
MaxProcesses == 6

\* what a text input of a process name returns
ProcessNames == {"", "p"}

\* lines 348-359: the add button
AddProcess ==
    /\ process_count < MaxProcesses
    /\ process_count' = process_count + 1
    /\ processes' = Append(processes, BlankProcess)
    /\ clicked' = "add"
    /\ UNCHANGED <<risk_levels, company_info, work_processes, risk_assessments,
                   seq_assessments, input, ret, prev, assessment_data, records,
                   stats, prev_stats, sheet, metrics, formats, legal_basis,
                   seq_legal_basis, loaded>>

\* RemoveProcess with `process_count >= 1` for `process_count > 1`
RemoveProcess_AtOne ==
    /\ clicked' = "remove"
    /\ IF process_count >= 1
       THEN /\ process_count' = process_count - 1
            /\ processes' = SubSeq(processes, 1, Len(processes) - 1)
       ELSE UNCHANGED <<process_count, processes>>
    /\ UNCHANGED <<risk_levels, company_info, work_processes, risk_assessments,
                   seq_assessments, input, ret, prev, assessment_data, records,
                   stats, prev_stats, sheet, metrics, formats, legal_basis,
                   seq_legal_basis, loaded>>

\* lines 361-364: the remove button; processes.pop() takes the last one
RemoveProcess ==
    /\ clicked' = "remove"
    /\ IF process_count > 1
       THEN /\ process_count' = process_count - 1
            /\ processes' = SubSeq(processes, 1, Len(processes) - 1)
       ELSE UNCHANGED <<process_count, processes>>
    /\ UNCHANGED <<risk_levels, company_info, work_processes, risk_assessments,
                   seq_assessments, input, ret, prev, assessment_data, records,
                   stats, prev_stats, sheet, metrics, formats, legal_basis,
                   seq_legal_basis, loaded>>

\* lines 366-393: a run with the text of one name input changed; the loop
\* writes processes[process_idx] for every process_idx below process_count,
\* and processes[process_idx] of an index the list lacks raises IndexError
EditProcessName ==
    \E process_idx \in 0..(process_count - 1), name \in ProcessNames :
        /\ process_count <= Len(processes)
        /\ processes' = [processes EXCEPT ![process_idx + 1].name = name]
        /\ clicked' = "name"
        /\ UNCHANGED <<risk_levels, company_info, work_processes, risk_assessments,
                       seq_assessments, input, ret, prev, assessment_data, records,
                       stats, prev_stats, sheet, metrics, formats, legal_basis,
                       seq_legal_basis, loaded, process_count>>

NextEditor == AddProcess \/ RemoveProcess \/ EditProcessName

\* the process editor used in any order
SpecEditor == Init /\ [][NextEditor]_vars

\* both arguments are ints inside the declared domains
ValidPair(possibility, severity) ==
    /\ possibility.t = "int" /\ possibility.n \in 1..5
    /\ severity.t = "int" /\ severity.n \in 1..4

(***************************************************************************)
(* C1: for every integer likelihood in 1..5 and severity in 1..4, the      *)
(* 5-tier and the 3-tier classifier return score = likelihood * severity.  *)
(***************************************************************************)
C1_ScoreIsProduct ==
    (ret.op \in {"handler", "utils"} /\ ValidPair(ret.possibility, ret.severity))
        => /\ ret.res.score = ret.possibility.n * ret.severity.n
           /\ ~ret.res.raised
           /\ ret.res.error = NoError

C1_Witness ==
    /\ ret.op = "utils" /\ prev.op = "handler"
    /\ ret.possibility = PyInt(5) /\ ret.severity = PyInt(4)
    /\ ret.res.score = 20 /\ prev.res.score = 20

(***************************************************************************)
(* C2: the five bands of risk_levels are exhaustive and non-overlapping:   *)
(* every integer score in 1..20 lies in exactly one band, so the scan of   *)
(* calculate_risk_score matches a tier for every valid pair and the level  *)
(* returned is that tier, not the pre-set fallback.                        *)
(***************************************************************************)
C2_BandsPartition ==
    /\ \A score \in 1..20 : Cardinality(MatchingTiers(risk_levels, score)) = 1
    /\ (ret.op = "handler" /\ ValidPair(ret.possibility, ret.severity))
         => \E i \in 1..Len(risk_levels) :
               /\ MatchingTiers(risk_levels, ret.res.score) = {i}
               /\ ret.res.level = risk_levels[i].name

C2_Witness ==
    /\ ret.op = "handler"
    /\ ret.possibility = PyInt(5) /\ ret.severity = PyInt(4)
    /\ ret.res.level = "very-high"

\* the tier table of the specification, section 6
TableLevel(score) ==
    CASE score \in 16..20 -> "very-high"
      [] score \in 12..15 -> "high"
      [] score \in 6..11 -> "medium"
      [] score \in 3..5 -> "low"
      [] score \in 1..2 -> "very-low"

TableAction(level) ==
    CASE level = "very-high" -> "stop-work-immediately"
      [] level = "high" -> "improve-immediately"
      [] level = "medium" -> "planned-improvement"
      [] level = "low" -> "monitoring"
      [] level = "very-low" -> "maintain"

(***************************************************************************)
(* C3: for every valid pair the 5-tier classifier returns the level and    *)
(* the action of the table row whose band contains the product (16-20      *)
(* very-high, 12-15 high, 6-11 medium, 3-5 low, 1-2 very-low), and the     *)
(* scan gives that row for every score of 1..20, band edges included.      *)
(***************************************************************************)
C3_LevelOfTable ==
    /\ \A score \in 1..20 :
          /\ ScanLevel(risk_levels, score) = TableLevel(score)
          /\ LevelInfo(risk_levels, TableLevel(score)).info.action
                = TableAction(TableLevel(score))
    /\ (ret.op = "handler" /\ ValidPair(ret.possibility, ret.severity))
         => /\ ret.res.level = TableLevel(ret.possibility.n * ret.severity.n)
            /\ ret.res.action = TableAction(ret.res.level)

C3_Witness ==
    /\ ret.op = "handler"
    /\ ret.possibility = PyInt(3) /\ ret.severity = PyInt(4)
    /\ ret.res.score = 12 /\ ret.res.level = "high"
    /\ ret.res.action = "improve-immediately"

\* the result is a failure that names field and its bounds lo..hi
FailsNaming(res, field, lo, hi) ==
    /\ res.raised \/ res.level = "error"
    /\ res.error = [field |-> field, lo |-> lo, hi |-> hi]

TierLevels == {"very-high", "high", "medium", "low", "very-low"}

(***************************************************************************)
(* C4 (as claimed): whenever likelihood is an integer outside 1..5 or      *)
(* severity an integer outside 1..4, classification fails with a           *)
(* validation error naming the offending field and its bound; the value is *)
(* not clamped and the result carries none of the tier levels.             *)
(***************************************************************************)
C4_OutOfDomainRejected ==
    (/\ ret.op \in {"handler", "utils"}
     /\ \/ (ret.possibility.t = "int" /\ ret.possibility.n \notin 1..5)
        \/ (ret.severity.t = "int" /\ ret.severity.n \notin 1..4))
        => /\ \/ FailsNaming(ret.res, "possibility", 1, 5)
              \/ FailsNaming(ret.res, "severity", 1, 4)
           /\ ret.res.level \notin TierLevels

\* what the claim asks of argument x with domain lo..hi, given the value
\* the classifier used for it
CoercionAsClaimed(x, lo, hi, used, rejected) ==
    IF PyToInt(x).ok
    THEN IF PyToInt(x).n \in lo..hi THEN used = PyInt(PyToInt(x).n) ELSE rejected
    ELSE used = PyInt(1)

(***************************************************************************)
(* C6 (as claimed): on the coercion path (an argument that is no int) a    *)
(* non-numeric or missing value is treated as 1, and a numeric value, int  *)
(* or numeric string, keeps its value or is rejected when out of range.    *)
(***************************************************************************)
C6_CoercionToMinimum ==
    /\ (ret.op = "handler" /\ (ret.possibility.t # "int" \/ ret.severity.t # "int"))
         => /\ CoercionAsClaimed(ret.possibility, 1, 5, ret.res.possibility,
                                 ret.res.level = "error")
            /\ CoercionAsClaimed(ret.severity, 1, 4, ret.res.severity,
                                 ret.res.level = "error")
    /\ (ret.op = "app" /\ (ret.possibility.t # "int" \/ ret.severity.t # "int"))
         => \E p \in 1..5, s \in 1..4 :
               /\ CoercionAsClaimed(ret.possibility, 1, 5, PyInt(p),
                                    ret.res.level = "unrated")
               /\ CoercionAsClaimed(ret.severity, 1, 4, PyInt(s),
                                    ret.res.level = "unrated")
               /\ ret.res.level # "unrated" => ret.res.score = p * s

\* a step that is a call of the handler's classifier leaves these alone
CallFrame == UNCHANGED <<risk_levels, company_info, work_processes,
                         risk_assessments, seq_assessments>>

(***************************************************************************)
(* C9: classification is pure: two calls of the handler's                  *)
(* calculate_risk_score with identical arguments return identical results, *)
(* and a call changes neither risk_levels nor the database.                *)
(***************************************************************************)
C9_Pure ==
    /\ []((/\ ret.op = "handler" /\ prev.op = "handler"
           /\ ret.possibility = prev.possibility
           /\ ret.severity = prev.severity)
             => ret.res = prev.res)
    /\ [][ret'.op = "handler" => CallFrame]_vars

C9_Witness ==
    /\ ret.op = "handler" /\ prev.op = "handler"
    /\ ret.possibility = PyInt(5) /\ ret.severity = PyInt(4)
    /\ prev.possibility = PyInt(5) /\ prev.severity = PyInt(4)
    /\ ret.res.level = "very-high"

\* likelihood or severity is absent, not a number, or outside lo..hi
OutOfDomain(x, lo, hi) == ~PyToInt(x).ok \/ PyToInt(x).n \notin lo..hi

(***************************************************************************)
(* C5 (as claimed): a validation failure reaches the caller: a step of     *)
(* save_risk_assessment whose possibility or severity is absent or out of  *)
(* its domain returns no assessment id and persists no row.                *)
(***************************************************************************)
C5_FailureReachesCaller ==
    [][(/\ ret'.op = "save_risk_assessment"
        /\ \/ OutOfDomain(ret'.possibility, 1, 5)
           \/ OutOfDomain(ret'.severity, 1, 4))
          => (ret'.value = 0 /\ risk_assessments' = risk_assessments)]_vars

\* the number an item's possibility or severity stands for
NumberOf(x) == IF PyToInt(x).ok THEN PyToInt(x).n ELSE 0

(***************************************************************************)
(* C7 (as claimed): after any sequence of form submissions, native or      *)
(* through the HTML component, every item of assessment_data has a         *)
(* risk_score in 1..20 equal to the product of its own possibility and     *)
(* severity.                                                               *)
(***************************************************************************)
C7_SessionScores ==
    \A i \in 1..Len(assessment_data) :
        LET item == assessment_data[i]
        IN  /\ item.risk_score.t = "int"
            /\ item.risk_score.n \in 1..20
            /\ PyToInt(item.possibility).ok /\ PyToInt(item.severity).ok
            /\ item.risk_score.n = NumberOf(item.possibility) * NumberOf(item.severity)

(***************************************************************************)
(* C8 (as claimed): every persisted row has risk_score = possibility *     *)
(* severity of that same row, and its risk_level, risk_color and           *)
(* action_required are the tier-table entries for that risk_score.         *)
(***************************************************************************)
C8_RowsConsistent ==
    \A i \in 1..Len(risk_assessments) :
        LET r == risk_assessments[i]
        IN  /\ r.possibility.t = "int" /\ r.severity.t = "int"
            /\ r.risk_score = r.possibility.n * r.severity.n
            /\ r.risk_level \in TierLevels
            /\ r.risk_level = ScanLevel(risk_levels, r.risk_score)
            /\ r.risk_color = LevelInfo(risk_levels, r.risk_level).info.color
            /\ r.action_required = LevelInfo(risk_levels, r.risk_level).info.action

(***************************************************************************)
(* C10: the statistics of an empty collection are total = 0 with count 0   *)
(* and percent 0 for every level; nothing is divided by zero or raised.    *)
(***************************************************************************)
C10_EmptySummary ==
    (stats.called /\ records = <<>>)
        => /\ stats.total = 0
           /\ stats.high = 0 /\ stats.medium = 0 /\ stats.low = 0
           /\ stats.high_percent = Zero /\ stats.medium_percent = Zero
           /\ stats.low_percent = Zero

C10_Witness == stats.called /\ records = <<>> /\ stats.total = 0

\* every item of the collection is a record (a dict)
AllRecords == \A i \in 1..Len(records) : records[i].dict

(***************************************************************************)
(* C11: for a non-empty collection of records the statistics count every   *)
(* record in exactly one of the levels: each record adds to one counter,   *)
(* each counter is the number of the records that add to it, and the       *)
(* counters sum to total, the number of the records.                       *)
(***************************************************************************)
C11_CountsSumToTotal ==
    (stats.called /\ records # <<>> /\ AllRecords)
        => /\ \A i \in 1..Len(records) :
                 Bucket(records[i]) \in {"high", "medium", "low"}
           /\ stats.high = CountOf(records, "high")
           /\ stats.medium = CountOf(records, "medium")
           /\ stats.low = CountOf(records, "low")
           /\ stats.high + stats.medium + stats.low = stats.total
           /\ stats.total = Len(records)

C11_Witness ==
    /\ stats.called /\ AllRecords /\ Len(records) = 3
    /\ \E i \in 1..3 : records[i] = Unscored(Absent, PyInt(3), PyInt(3))
    /\ stats.high = 1 /\ stats.medium = 1 /\ stats.low = 1

(***************************************************************************)
(* C12 (as claimed): for every collection given to                         *)
(* _calculate_risk_statistics, the total of the summary is the number of   *)
(* items of the collection.                                                *)
(***************************************************************************)
C12_TotalIsLength == stats.called => stats.total = Len(records)

(***************************************************************************)
(* C13 (as claimed): the counters of the page never drop a record: after   *)
(* any sequence of submissions, viewing the stored assessments shows       *)
(* high_count + medium_count + low_count equal to the number of items of   *)
(* assessment_data.                                                        *)
(***************************************************************************)
C13_CountersCoverItems ==
    (metrics.shown \/ metrics.raised)
        => /\ metrics.shown
           /\ metrics.high_count + metrics.medium_count + metrics.low_count
                 = Len(assessment_data)

\* the records of data, each record that has a valid possibility and
\* severity and neither score nor level replaced by the record carrying the
\* classification of that pair
Reclassified(data) ==
    [i \in 1..Len(data) |->
        IF /\ data[i].dict
           /\ data[i].risk_score = Absent /\ data[i].risk_level = NoKey
           /\ ValidPair(data[i].possibility, data[i].severity)
        THEN Classified(data[i].hazard_factor, data[i].possibility, data[i].severity)
        ELSE data[i]]

(***************************************************************************)
(* C14 (as claimed): reclassification consistency: a record that carries   *)
(* only a valid likelihood and severity is counted in the level in which   *)
(* the record carrying the classification of that pair is counted, so the  *)
(* summary of a collection is the summary of the collection with its       *)
(* unscored records classified.                                            *)
(***************************************************************************)
C14_ReclassificationConsistent ==
    (stats.called /\ AllRecords)
        => stats = Called(calculate_risk_statistics(Reclassified(records)))

(***************************************************************************)
(* C15 (as claimed): the summary of the five records with the scores 20,   *)
(* 12, 6, 3 and 1 has total = 5, and every level of it has count 1 and     *)
(* percent 20.0.                                                           *)
(***************************************************************************)
C15_FiveScoresSummary ==
    (stats.called /\ records = FiveScores)
        => /\ stats.total = 5
           /\ stats.high = 1 /\ stats.medium = 1 /\ stats.low = 1
           /\ stats.high_percent = FloatOfNat(20)
           /\ stats.medium_percent = FloatOfNat(20)
           /\ stats.low_percent = FloatOfNat(20)

\* the exact sum of two dyadics
DyAdd(x, y) ==
    LET e == IF x.e < y.e THEN x.e ELSE y.e
    IN  IF Len(x.m) = 0 THEN y
        ELSE IF Len(y.m) = 0 THEN x
        ELSE [m |-> Add(ShiftLeft(x.m, x.e - e), ShiftLeft(y.m, y.e - e)), e |-> e]

\* x + y of two floats
FloatAdd(x, y) == RoundTo(DyAdd(x, y).m, DyAdd(x, y).e, FALSE)

\* a <= b of two integers
Le(a, b) ==
    \/ Len(a) < Len(b)
    \/ /\ Len(a) = Len(b)
       /\ \/ a = b
          \/ \E i \in 1..Len(a) : a[i] < b[i] /\ \A j \in 1..(i - 1) : a[j] = b[j]

\* x <= y of two dyadics
DyLe(x, y) ==
    LET e == IF x.e < y.e THEN x.e ELSE y.e
    IN  Le(ShiftLeft(x.m, x.e - e), ShiftLeft(y.m, y.e - e))

\* x = y of two dyadics
DyEq(x, y) == DyLe(x, y) /\ DyLe(y, x)

\* the dyadic of an int n >= 0, and the exact product of a dyadic and an int
DyOfNat(n) == [m |-> LimbsOf(n), e |-> 0]

DyMulNat(x, k) == [m |-> MulSmall(x.m, k), e |-> x.e]

\* the rounding tolerance: four units in the last place of 100.0
Tolerance == [m |-> <<1>>, e |-> FloatOfNat(100).e + 2]

\* x and y differ by tol at most
Near(x, y, tol) == DyLe(x, DyAdd(y, tol)) /\ DyLe(y, DyAdd(x, tol))

\* the float p is count / total * 100, and that is count * 100 / total within
\* the tolerance
PercentOf(p, count, total) ==
    /\ p = FloatMulNat(FloatDiv(count, total), 100)
    /\ Near(DyMulNat(p, total), DyOfNat(count * 100), DyMulNat(Tolerance, total))

\* high_percent + medium_percent + low_percent of the summary s, added as
\* floats from left to right
PercentSum(s) == FloatAdd(FloatAdd(s.high_percent, s.medium_percent), s.low_percent)

\* the percentages of the summary are those of its counts out of its total,
\* and its counts are all of the total
PercentsOfCounts ==
    /\ stats.total > 0
    /\ stats.high + stats.medium + stats.low = stats.total
    /\ PercentOf(stats.high_percent, stats.high, stats.total)
    /\ PercentOf(stats.medium_percent, stats.medium, stats.total)
    /\ PercentOf(stats.low_percent, stats.low, stats.total)

(***************************************************************************)
(* C16 (as claimed): each level's percent is count / total * 100 (0 when   *)
(* total is 0), and for a non-empty collection of records the three        *)
(* percents sum to 100.                                                    *)
(***************************************************************************)
C16_PercentsSumTo100 ==
    /\ (stats.called /\ stats.total = 0)
          => /\ stats.high_percent = Zero /\ stats.medium_percent = Zero
             /\ stats.low_percent = Zero
    /\ (stats.called /\ records # <<>> /\ AllRecords)
          => /\ PercentsOfCounts
             /\ DyEq(PercentSum(stats), FloatOfNat(100))

(***************************************************************************)
(* C16 (amended): each level's percent is the float count / total * 100,   *)
(* which is the exact quotient within rounding (0 when total is 0), and    *)
(* for a non-empty collection of records the three percents sum to 100     *)
(* within the rounding tolerance; the sum need not be 100.0 itself.        *)
(***************************************************************************)
C16_PercentsSumNear100 ==
    /\ (stats.called /\ stats.total = 0)
          => /\ stats.high_percent = Zero /\ stats.medium_percent = Zero
             /\ stats.low_percent = Zero
    /\ (stats.called /\ records # <<>> /\ AllRecords)
          => /\ PercentsOfCounts
             /\ Near(PercentSum(stats), FloatOfNat(100), Tolerance)

C16_Witness ==
    /\ stats.called /\ AllRecords /\ Len(records) = 3
    /\ stats.high = 1 /\ stats.medium = 1 /\ stats.low = 1
    /\ stats.high_percent = FloatMulNat(FloatDiv(1, 3), 100)
    /\ ~DyEq(PercentSum(stats), FloatOfNat(100))
    /\ Near(PercentSum(stats), FloatOfNat(100), Tolerance)

(***************************************************************************)
(* C17: summarizing is idempotent and read-only: two calls of              *)
(* _calculate_risk_statistics on the same collection return the same       *)
(* total, counts and percents, bit for bit, and no call changes the        *)
(* collection.                                                             *)
(***************************************************************************)
C17_Idempotent ==
    /\ []((stats.called /\ prev_stats.called) => stats = prev_stats)
    /\ [][records' = records]_vars

C17_Witness ==
    /\ stats.called /\ prev_stats.called /\ AllRecords
    /\ Len(records) = 3 /\ stats.total = 3 /\ stats.low = 1
    /\ stats.low_percent = Percent(1, 3)
    /\ prev_stats.low_percent = Percent(1, 3)

\* the row the claim gives a record: "other" when its hazard_factor is
\* missing or empty, its hazard_factor otherwise
ClaimedKey(item) ==
    IF item.hazard_factor \in {Absent, PyNone, PyStr(<<>>)} THEN Other
    ELSE item.hazard_factor

(***************************************************************************)
(* C18 (as claimed): in the breakdown per hazard every record whose        *)
(* hazard_factor is missing or empty is counted in the one row "other",    *)
(* every other record in the row of its hazard_factor, and no record is    *)
(* left out: the rows are those of the records, each with the number of    *)
(* its records as total.                                                   *)
(***************************************************************************)
C18_OtherBucket ==
    (sheet.written /\ AllRecords)
        => /\ sheet.analysed
           /\ \A i \in 1..Len(records) :
                 \E row \in sheet.hazard_stats :
                    /\ row.hazard = ClaimedKey(records[i])
                    /\ row.total = Cardinality({j \in 1..Len(records) :
                           ClaimedKey(records[j]) = ClaimedKey(records[i])})
           /\ \A row \in sheet.hazard_stats :
                 \E i \in 1..Len(records) : row.hazard = ClaimedKey(records[i])

\* the tier of the 3-tier scheme a tier of the 5-tier table merges into
Merged(level) ==
    CASE level \in {"very-high", "high"} -> "high"
      [] level = "medium" -> "medium"
      [] level \in {"low", "very-low"} -> "low"
      [] OTHER -> level

(***************************************************************************)
(* C19: the 3-tier scheme is the 5-tier table with bands merged: for every *)
(* valid pair the level of the 3-tier classifiers (utils_data_handler,     *)
(* streamlit_app) is the level of the 5-tier classifier with very-high and *)
(* high merged into high and low and very-low into low, and the            *)
(* statistics count the score of the pair in that same level.              *)
(***************************************************************************)
C19_ThreeTierIsMerged ==
    ValidPair(input.possibility, input.severity)
        => /\ (ret.op \in {"utils", "app"} /\ prev.op = "handler")
                 => ret.res.level = Merged(prev.res.level)
           /\ (ret.op = "handler" /\ prev.op \in {"utils", "app"})
                 => prev.res.level = Merged(ret.res.level)
           /\ ret.op = "handler"
                 => /\ ret.res.level \in TierLevels
                    /\ Bucket(StatRecord(Absent, ret.possibility, ret.severity,
                                         PyInt(ret.res.score), NoKey))
                          = Merged(ret.res.level)

C19_Witness ==
    /\ ret.op = "utils" /\ prev.op = "handler"
    /\ ret.possibility = PyInt(3) /\ ret.severity = PyInt(4)
    /\ prev.res.score = 12 /\ prev.res.level = "high" /\ ret.res.level = "high"

(***************************************************************************)
(* C20 (as claimed): the handler's calculate_risk_score rejects an         *)
(* argument that is an int outside its domain (possibility outside 1..5,   *)
(* severity outside 1..4) whatever the type of the other argument: int,    *)
(* str or None.                                                            *)
(***************************************************************************)
C20_RejectedWhateverPartner ==
    ret.op = "handler"
        => /\ (ret.possibility.t = "int" /\ ret.possibility.n \notin 1..5)
                 => (ret.res.level = "error" /\ ret.res.error = PossibilityError)
           /\ (ret.severity.t = "int" /\ ret.severity.n \notin 1..4
                /\ ~(ret.possibility.t = "int" /\ ret.possibility.n \notin 1..5))
                 => ret.res.level = "error"
(***************************************************************************)
(* C21 (as claimed): validation and classification agree: when             *)
(* validate_risk_data returns no error for a record, calculate_risk_score  *)
(* of the handler on that record's possibility and severity returns a      *)
(* result that is no error and whose score is int(possibility) *           *)
(* int(severity).                                                          *)
(***************************************************************************)
C21_ValidatedClassifies ==
    (prev.op = "validate" /\ prev.value = 0 /\ ret.op = "handler")
        => /\ ret.res.level # "error"
           /\ ret.res.score = PyToInt(ret.possibility).n * PyToInt(ret.severity).n

\* a record the claim allows among the low ones: its score is in 1..5 or its
\* level is the low tier
LowAsClaimed(item) ==
    \/ item.risk_score.t = "int" /\ item.risk_score.n \in 1..5
    \/ item.risk_level = "low"

(***************************************************************************)
(* C22 (as claimed): _calculate_risk_statistics counts a record as low     *)
(* only if its score is in 1..5 or its level is the low tier: the low      *)
(* counter is at most the number of such records, and a record whose       *)
(* classification failed (score 0 with level "error" or "unrated") or that *)
(* has neither score nor level adds to no low counter.                     *)
(***************************************************************************)
C22_LowOnlyIfLow ==
    (stats.called /\ AllRecords)
        => /\ stats.low <= Cardinality({i \in 1..Len(records) : LowAsClaimed(records[i])})
           /\ \A i \in 1..Len(records) :
                  Bucket(records[i]) = "low" => LowAsClaimed(records[i])

(***************************************************************************)
(* C23 (as claimed): for every assessment record the risk band whose       *)
(* format colours its row in the assessment sheet (high, medium or low) is *)
(* the band in which _calculate_risk_statistics counts that record.        *)
(***************************************************************************)
C23_RowFormatIsBucket ==
    (formats.written /\ AllRecords)
        => \A i \in 1..Len(records) :
              formats.rows[i] # "none" => formats.rows[i] = Bucket(records[i])

\* how severe a tier is
TierRank(level) ==
    CASE level = "very-low" -> 1
      [] level = "low" -> 2
      [] level = "medium" -> 3
      [] level = "high" -> 4
      [] level = "very-high" -> 5
      [] OTHER -> 0

\* the tier the classifier op returns for the ints possibility and severity
TierOf(op, possibility, severity) ==
    CASE op = "handler" ->
             calculate_risk_score(risk_levels, PyInt(possibility), PyInt(severity)).level
      [] op = "utils" ->
             utils_calculate_risk_score(PyInt(possibility), PyInt(severity)).level
      [] OTHER -> AppResult(PyInt(possibility), PyInt(severity)).level

(***************************************************************************)
(* C24: the risk level is monotone in the inputs: the tier a classifier    *)
(* returned for a valid pair is a tier, it is at least as severe as the    *)
(* tier of every valid pair that is no larger in likelihood and severity,  *)
(* and at most as severe as the tier of every valid pair that is no        *)
(* smaller, in the 5-tier classifier and in the 3-tier classifiers.        *)
(***************************************************************************)
C24_LevelMonotone ==
    (ret.op \in {"handler", "utils", "app"} /\ ValidPair(ret.possibility, ret.severity))
        => /\ TierRank(ret.res.level) > 0
           /\ \A possibility \in 1..5, severity \in 1..4 :
                 /\ (possibility <= ret.possibility.n /\ severity <= ret.severity.n)
                       => TierRank(TierOf(ret.op, possibility, severity))
                             <= TierRank(ret.res.level)
                 /\ (possibility >= ret.possibility.n /\ severity >= ret.severity.n)
                       => TierRank(ret.res.level)
                             <= TierRank(TierOf(ret.op, possibility, severity))

\* the classifiers called on (2, 3), between (1, 3) of a lower tier and (2, 4)
C24_Witness ==
    /\ ret.op = "handler" /\ prev.op = "utils"
    /\ ret.possibility = PyInt(2) /\ ret.severity = PyInt(3)
    /\ ret.res.level = "medium" /\ prev.res.level = "medium"
    /\ TierOf("handler", 1, 3) = "low" /\ TierOf("handler", 2, 4) = "medium"
    /\ TierOf("utils", 1, 3) = "low" /\ TierOf("utils", 3, 4) = "high"

RECURSIVE SumCounts(_)
\* the sum of the counts of a distribution
SumCounts(distribution) ==
    IF distribution = {} THEN 0
    ELSE LET pair == CHOOSE pair \in distribution : TRUE
         IN  pair.count + SumCounts(distribution \ {pair})

(***************************************************************************)
(* C25: after any sequence of save_risk_assessment and delete_assessment   *)
(* calls get_statistics reports as assessments the number of rows that     *)
(* risk_assessments has, and the counts of its risk_distribution sum to    *)
(* that number.                                                            *)
(***************************************************************************)
C25_StatisticsCountRows ==
    ret.op = "get_statistics"
        => /\ ret.statistics.assessments = Len(risk_assessments)
           /\ SumCounts(ret.statistics.risk_distribution) = Len(risk_assessments)

\* two rows saved, one of a failed classification, the other deleted
C25_Witness ==
    /\ ret.op = "get_statistics"
    /\ seq_assessments = 2 /\ Len(risk_assessments) = 1
    /\ ret.statistics.assessments = 1
    /\ ret.statistics.risk_distribution = {[risk_level |-> "error", count |-> 1]}

\* the rows of risk_assessments with the id
RowsWithId(id) == {j \in 1..Len(risk_assessments) : risk_assessments[j].id = id}

(***************************************************************************)
(* C26: delete_assessment(id) removes exactly the row of risk_assessments  *)
(* with that id and leaves every other row, in its place among the others, *)
(* and every other table unchanged; for an id that no row has the database *)
(* is unchanged; it returns True either way.                               *)
(***************************************************************************)
C26_DeleteExactlyOne ==
    [][ret'.op = "delete_assessment"
          => LET id == ret'.possibility.n
             IN  /\ ret'.value = 1
                 /\ Cardinality(RowsWithId(id)) <= 1
                 /\ Len(risk_assessments')
                       = Len(risk_assessments) - Cardinality(RowsWithId(id))
                 /\ \A j \in 1..Len(risk_assessments) :
                       risk_assessments[j].id # id
                          => risk_assessments'[j - Cardinality({k \in RowsWithId(id) : k < j})]
                                = risk_assessments[j]
                 /\ RowsWithId(id) = {} => risk_assessments' = risk_assessments
                 /\ UNCHANGED <<company_info, work_processes, seq_assessments,
                                legal_basis, seq_legal_basis, risk_levels>>]_vars

\* the first of two rows deleted, with a company and a process stored
C26_Witness ==
    /\ ret.op = "delete_assessment" /\ ret.possibility = PyInt(1) /\ ret.value = 1
    /\ seq_assessments = 2 /\ Len(risk_assessments) = 1
    /\ risk_assessments[1].id = 2
    /\ company_info # {} /\ work_processes # {}

\* the rows of the file as the table holds them, without the ids
RowsOfFile(file) ==
    [i \in 1..Len(file.rows) |->
        [category |-> DictGet(file.rows[i].category, PyStr(<<>>)),
         subcategory |-> DictGet(file.rows[i].subcategory, PyStr(<<>>)),
         legal_text |-> DictGet(file.rows[i].legal_text, PyStr(<<>>)),
         regulation_number |-> DictGet(file.rows[i].regulation_number, PyStr(<<>>))]]

\* the rows of the table without the ids
RowsOfTable(table) ==
    [i \in 1..Len(table) |->
        [category |-> table[i].category, subcategory |-> table[i].subcategory,
         legal_text |-> table[i].legal_text,
         regulation_number |-> table[i].regulation_number]]

(***************************************************************************)
(* C27: load_legal_basis_from_excel replaces the table legal_basis         *)
(* atomically: a call that returns True leaves in the table exactly the    *)
(* rows of the file, every previous row removed; a call that fails, before *)
(* the DELETE or after it, returns False and leaves the table as it was;   *)
(* the call fails when the file cannot be read or a row cannot be stored.  *)
(***************************************************************************)
C27_LoadIsAtomic ==
    [][loaded'.called
          => /\ loaded'.returned
                   = (loaded'.file.readable
                        /\ \A i \in 1..Len(loaded'.file.rows) :
                               \A column \in DOMAIN loaded'.file.rows[i] :
                                  loaded'.file.rows[i][column].t \in {"str", "absent"})
             /\ loaded'.returned
                   => /\ RowsOfTable(legal_basis') = RowsOfFile(loaded'.file)
                      /\ \A i \in 1..Len(legal_basis') :
                            \A j \in 1..Len(legal_basis) :
                               legal_basis'[i].id # legal_basis[j].id
             /\ ~loaded'.returned
                   => /\ legal_basis' = legal_basis
                      /\ seq_legal_basis' = seq_legal_basis]_vars

\* a load that failed in its second row, after a load of another file
C27_Witness ==
    /\ loaded.called /\ ~loaded.returned
    /\ loaded.file.readable /\ Len(loaded.file.rows) = 2
    /\ Len(legal_basis) = 1 /\ legal_basis[1].category = PyStr(<<"B">>)
    /\ seq_legal_basis = 1

(***************************************************************************)
(* C28: in the process editor of app.py, after any sequence of clicks on   *)
(* the add and the remove button, process_count is the length of processes *)
(* and at least 1; a click on remove at count 1 changes neither.           *)
(***************************************************************************)
C28_CountIsLength ==
    /\ [](process_count = Len(processes) /\ process_count >= 1)
    /\ [][(clicked' = "remove" /\ process_count = 1)
            => UNCHANGED <<process_count, processes>>]_vars

\* remove clicked at count 1, after the four removes that lead there
C28_Witness ==
    /\ clicked = "remove" /\ process_count = 1 /\ Len(processes) = 1
    /\ processes[1].name = "p"

====
